---- MODULE Spec2Model ----
(***************************************************************************)
(* A model of the catalog scraper of coding_samples/python_sample.py: the  *)
(* campaign driver (main, scrape_language, parse_language), the pagination *)
(* driver (parse_code), the page parser, the record mapper, the SQLite     *)
(* sink and the CSV progress ledgers, together with the process being      *)
(* terminated and started again.                                           *)
(*                                                                         *)
(* Conventions.  Python's None is the empty sequence <<>> for values that  *)
(* are otherwise wrapped in a one-element sequence (an optional value is   *)
(* <<>> or <<v>>), and NoCount for the integer results.  A text is a       *)
(* sequence of one-character strings.  A file that may be missing is a     *)
(* record [exists, rows].                                                  *)
(***************************************************************************)
EXTENDS Integers, Sequences, FiniteSets, TLC

\* ------------------------------------------------------------------ bounds
\* Longest code_list handed to main.
MaxLen == 2
\* Number of times the process is started (first run plus restarts).
MaxRuns == 2
\* Largest result count given to num_of_pages in SpecPages.
MaxCount == 300
\* Longest universe given to progress_update_codes in SpecRemaining.
MaxUniverse == 4
\* Longest heading given to num_of_results in SpecCount and longest title
\* given to clean_title in SpecTitle.
MaxText == 4

\* ------------------------------------------------------- program constants
\* Results per page: count=100 in the query, num / 100, i*100.
PageSize == 100
\* None as returned by extract_number / num_of_results / num_of_pages.
NoCount == -1

\* --------------------------------------------------------------- texts
Range(s) == {s[k] : k \in DOMAIN s}

Digits == {"0", "1", "2", "3", "4", "5", "6", "7", "8", "9"}

DigitVal(c) ==
    CASE c = "0" -> 0 [] c = "1" -> 1 [] c = "2" -> 2 [] c = "3" -> 3
      [] c = "4" -> 4 [] c = "5" -> 5 [] c = "6" -> 6 [] c = "7" -> 7
      [] c = "8" -> 8 [] c = "9" -> 9

\* Characters str.strip() removes at both ends (the ones the model uses).
Whitespace == {" ", "\n", "\t", "\r"}

RECURSIVE Concat(_)
\* ''.join(list)
Concat(list) ==
    IF list = <<>> THEN <<>> ELSE Head(list) \o Concat(Tail(list))

RECURSIVE ParseInt(_, _)
\* int(text) for a text of digits, most significant digit first.
ParseInt(text, acc) ==
    IF text = <<>> THEN acc
    ELSE ParseInt(Tail(text), acc * 10 + DigitVal(Head(text)))

RECURSIVE DigitRun(_)
\* The longest prefix of text made of digits: one match of \d+.
DigitRun(text) ==
    IF text = <<>> \/ Head(text) \notin Digits THEN <<>>
    ELSE <<Head(text)>> \o DigitRun(Tail(text))

RECURSIVE FindAllDigits(_)
\* re.findall(r'\d+', str): the maximal digit runs, left to right.
FindAllDigits(text) ==
    IF text = <<>> THEN <<>>
    ELSE IF Head(text) \notin Digits THEN FindAllDigits(Tail(text))
    ELSE LET run == DigitRun(text)
         IN  <<run>> \o FindAllDigits(SubSeq(text, Len(run) + 1, Len(text)))

\* A counter that reads the first digit run only.
extract_number_first(text) ==
    LET number == FindAllDigits(text)
    IN  IF number = <<>> THEN NoCount ELSE ParseInt(number[1], 0)

\* extract_number(str)
extract_number(text) ==
    LET number == FindAllDigits(text)
    IN  IF number = <<>> THEN NoCount ELSE ParseInt(Concat(number), 0)

\* A page count that rounds down.
num_of_pages_floor(num) ==
    IF num = NoCount THEN NoCount ELSE num \div PageSize

\* num_of_pages(num): math.ceil(num / 100), None for None.
num_of_pages(num) ==
    IF num = NoCount THEN NoCount
    ELSE IF num % PageSize = 0 THEN num \div PageSize
    ELSE (num \div PageSize) + 1

RECURSIVE RemoveChar(_, _)
\* str.replace(c, "") for a one-character c.
RemoveChar(text, c) ==
    IF text = <<>> THEN <<>>
    ELSE IF Head(text) = c THEN RemoveChar(Tail(text), c)
    ELSE <<Head(text)>> \o RemoveChar(Tail(text), c)

RECURSIVE LStrip(_)
LStrip(text) ==
    IF text # <<>> /\ Head(text) \in Whitespace THEN LStrip(Tail(text)) ELSE text

RECURSIVE RStrip(_)
RStrip(text) ==
    IF text # <<>> /\ text[Len(text)] \in Whitespace
    THEN RStrip(SubSeq(text, 1, Len(text) - 1)) ELSE text

\* str.strip()
Strip(text) == RStrip(LStrip(text))

\* A cleaning that trims before it removes.
clean_title_trim_first(title) ==
    RemoveChar(RemoveChar(RemoveChar(Strip(title), "\n"), "\t"), "/")

\* clean_title(title)
clean_title(title) ==
    Strip(RemoveChar(RemoveChar(RemoveChar(title, "\n"), "\t"), "/"))

RECURSIVE IndexOf(_, _, _)
\* The first position >= k at which character c occurs in text, 0 when none.
IndexOf(text, c, k) ==
    IF k > Len(text) THEN 0
    ELSE IF text[k] = c THEN k ELSE IndexOf(text, c, k + 1)

\* text.split(sep, 1): one part when sep does not occur, else two.
SplitOnce(text, sep) ==
    LET k == IndexOf(text, sep, 1)
    IN  IF k = 0 THEN <<text>>
        ELSE <<SubSeq(text, 1, k - 1), SubSeq(text, k + 1, Len(text))>>

IsPrefix(p, text) ==
    Len(p) <= Len(text) /\ SubSeq(text, 1, Len(p)) = p

RECURSIVE RemoveAll(_, _)
\* text.replace(label, "") for a non-empty label.
RemoveAll(text, label) ==
    IF text = <<>> THEN <<>>
    ELSE IF IsPrefix(label, text)
         THEN RemoveAll(SubSeq(text, Len(label) + 1, Len(text)), label)
    ELSE <<Head(text)>> \o RemoveAll(Tail(text), label)

\* The label extract_book_type removes: "Material type:".
MaterialTypeLabel ==
    <<"M", "a", "t", "e", "r", "i", "a", "l", " ", "t", "y", "p", "e", ":">>

\* ------------------------------------------------------- field extractors
\* A row fragment (one <tr>) is a record of eight optional texts, the text
\* of the element each extractor looks up: <<>> when the element is
\* missing (soup.find returns None), <<text>> when it is there.  For the
\* title the text is the element's first direct string; the parser makes no
\* empty string, so the empty text stands for an element without one.

\* extract_text(soup, selector) and extract_text_class(soup, selector, type):
\* the element's text as it is, None when find() returns None.
extract_text(element) == element

\* extract_title(soup): None when there is no a.title, and when it has no
\* direct string (clean_title(None) raises the AttributeError caught here).
extract_title(element) ==
    IF element = <<>> THEN <<>>
    ELSE IF element[1] = <<>> THEN <<>>
    ELSE <<clean_title(element[1])>>

\* extract_book_type(soup)
extract_book_type(element) ==
    IF element = <<>> THEN <<>>
    ELSE <<RemoveAll(Strip(element[1]), MaterialTypeLabel)>>

\* extract_book_language(soup): the part after the first colon; IndexError
\* (no colon) gives None.
extract_book_language(element) ==
    IF element = <<>> THEN <<>>
    ELSE LET parts == SplitOnce(Strip(element[1]), ":")
         IN  IF Len(parts) < 2 THEN <<>> ELSE <<Strip(parts[2])>>

\* extract_book_form(soup)
extract_book_form(element) ==
    IF element = <<>> THEN <<>>
    ELSE LET text == Strip(element[1])
         IN  IF ":" \in Range(text)
             THEN <<Strip(SplitOnce(text, ":")[2])>>
             ELSE <<Strip(text)>>

\* extract_call_number(book)
extract_call_number(element) ==
    IF element = <<>> THEN <<>> ELSE <<Strip(element[1])>>

\* extract_link(book): the href of the first <a>.
extract_link(element) == element

\* A mapper that gives up the whole record when one lookup fails.
parse_book_all_or_nothing(book) ==
    IF \E f \in DOMAIN book : book[f] = <<>>
    THEN <<<<>>, <<>>, <<>>, <<>>, <<>>, <<>>, <<>>, <<>>>>
    ELSE <<extract_title(book.title), extract_call_number(book.call_number),
           extract_text(book.author), extract_book_type(book.booktype),
           extract_book_form(book.form), extract_book_language(book.language),
           extract_text(book.year), extract_link(book.link)>>

\* parse_book(book): the one tuple the generator yields.
parse_book(book) ==
    <<extract_title(book.title), extract_call_number(book.call_number),
      extract_text(book.author), extract_book_type(book.booktype),
      extract_book_form(book.form), extract_book_language(book.language),
      extract_text(book.year), extract_link(book.link)>>

\* The identity the comment in save_to_database names: (title, author, year).
Identity(row) == <<row[1], row[3], row[7]>>

\* ------------------------------------------------------------ query builder
\* A locator is <<lan, DDC, offset>>, the three parameters that vary in the
\* URL; None (the bare return of the else branch) is <<>>.
NoUrl == <<>>

\* build_url(language, num, DDC)
build_url(language, num, DDC) ==
    IF language = "Hindi" THEN <<"hin", DDC, num>>
    ELSE IF language = "Bengali" THEN <<"ben", DDC, num>>
    ELSE IF language = "Tamil" THEN <<"tam", DDC, num>>
    ELSE IF language = "Marathi" THEN <<"mar", DDC, num>>
    ELSE IF language = "Urdu" THEN <<"urd", DDC, num>>
    ELSE IF language = "Kannada" THEN <<"kan", DDC, num>>
    ELSE IF language = "English" THEN <<"eng", DDC, num>>
    ELSE NoUrl

\* ------------------------------------------------------------------ files
NoFile == [exists |-> FALSE, rows |-> <<>>]

File(rows) == [exists |-> TRUE, rows |-> rows]

\* save_to_database(database_path, page_results) on the rows of table books.
\* The table is created with eight plain text columns and no PRIMARY KEY or
\* UNIQUE constraint, so INSERT OR IGNORE has no conflict to ignore: every
\* tuple of page_results becomes a new row.
save_to_database(table, page_results) == table \o page_results

\* A tracker that writes the new code over the file.
save_code_scraped_overwrite(file, code) == File(<<code>>)

\* save_code_scraped(language, path, code) on the facet's ledger file.
save_code_scraped(file, code) ==
    IF file.exists THEN File(Append(file.rows, code)) ELSE File(<<code>>)

RECURSIVE NotScraped(_, _)
\* [code for code in list_of_codes if code not in codes_scraped]
NotScraped(list_of_codes, codes_scraped) ==
    IF list_of_codes = <<>> THEN <<>>
    ELSE LET code == Head(list_of_codes)
             rest == NotScraped(Tail(list_of_codes), codes_scraped)
         IN  IF \E k \in DOMAIN codes_scraped : codes_scraped[k] = code
             THEN rest ELSE <<code>> \o rest

\* A resume that takes the ledger's first row for a heading.
progress_update_codes_skip_first(universe, ledgerFile) ==
    LET codes_scraped ==
            IF ledgerFile.exists /\ ledgerFile.rows # <<>>
            THEN Tail(ledgerFile.rows) ELSE <<>>
    IN  NotScraped(universe, codes_scraped)

\* A resume that skips as many codes as the ledger holds.
progress_update_codes_by_count(universe, ledgerFile) ==
    LET done == IF ledgerFile.exists THEN Len(ledgerFile.rows) ELSE 0
    IN  SubSeq(universe, done + 1, Len(universe))

\* A restart that takes the whole universe again.
progress_update_codes_all(universe, ledgerFile) == universe

\* progress_update_codes(path, language), given the rows of the universe file
\* it read and the facet's ledger file (FileNotFoundError => []).
progress_update_codes(universe, ledgerFile) ==
    LET codes_scraped == IF ledgerFile.exists THEN ledgerFile.rows ELSE <<>>
    IN  NotScraped(universe, codes_scraped)

\* --------------------------------------------------------- remote catalog
\* The catalog is outside the program: these are sample contents it can
\* serve.  A response is [h1, table]: h1 the heading's text (<<>> when the
\* page has no <h1>), table the <tr> fragments of div.searchresults (<<>>
\* when the page has no such div, <<rows>> when it has).
RowA ==
    [title |-> << <<" ", "F", "o", "\n", "/">> >>,
     call_number |-> << <<"6", "0", "0", " ">> >>,
     author |-> << <<"A">> >>,
     booktype |-> << MaterialTypeLabel \o <<"B", "k">> >>,
     form |-> << <<"f", ":", " ", "N">> >>,
     language |-> << <<"l", ":", "H">> >>,
     year |-> << <<"1", "9">> >>,
     link |-> << <<"u", "1">> >>]

\* The same title, author and year as RowA once cleaned; another copy.
RowB ==
    [title |-> << <<"F", "o", "\t">> >>,
     call_number |-> << <<"6", "0", "1">> >>,
     author |-> << <<"A">> >>,
     booktype |-> << <<"B", "k">> >>,
     form |-> << <<"N">> >>,
     language |-> << <<"H">> >>,
     year |-> << <<"1", "9">> >>,
     link |-> << <<"u", "2">> >>]

\* No author paragraph.
RowC ==
    [title |-> << <<"B", "a">> >>,
     call_number |-> << <<"6", "1">> >>,
     author |-> <<>>,
     booktype |-> << <<"B", "k">> >>,
     form |-> << <<"N">> >>,
     language |-> << <<"l", ":", "E">> >>,
     year |-> << <<"2", "0">> >>,
     link |-> << <<"u", "3">> >>]

\* A <tr> holding none of the elements.
RowD ==
    [title |-> <<>>, call_number |-> <<>>, author |-> <<>>, booktype |-> <<>>,
     form |-> <<>>, language |-> <<>>, year |-> <<>>, link |-> <<>>]

HeadingNone == <<"N", "o", " ", "r", "e", "s", "u", "l", "t", "s">>

Heading(digits) == digits \o <<" ", "r", "e", "s", "u", "l", "t", "s">>

Response(h1, table) == [h1 |-> h1, table |-> table]

CatalogNames == {"A", "B"}

\* What the catalog named cat serves for the locator url.
Remote(cat, url) ==
    LET lan == url[1]
        DDC == url[2]
        offset == url[3]
    IN  IF cat = "A" THEN
            CASE lan = "hin" /\ DDC = 600 -> Response(<<HeadingNone>>, <<>>)
              [] lan = "hin" /\ DDC = 601 ->
                    Response(<<Heading(<<"1", ",", "5", "0">>)>>,
                             IF offset = 0 THEN << <<RowA, RowC>> >>
                             ELSE << <<RowB>> >>)
              [] lan = "eng" /\ DDC = 600 ->
                    Response(<<Heading(<<"1", "0", "0">>)>>, <<>>)
              [] lan = "eng" /\ DDC = 601 ->
                    Response(<<Heading(<<"0">>)>>, << <<>> >>)
              [] OTHER -> Response(<<HeadingNone>>, <<>>)
        ELSE
            CASE lan = "hin" /\ DDC = 600 ->
                    Response(<<Heading(<<"2", "5", "0">>)>>,
                             IF offset = 0 THEN << <<RowA>> >>
                             ELSE IF offset = 100 THEN << <<>> >>
                             ELSE << <<RowD, RowA>> >>)
              [] lan = "hin" /\ DDC = 601 -> Response(<<>>, <<>>)
              [] lan = "eng" /\ DDC = 601 ->
                    Response(<<Heading(<<"1", "0", "1">>)>>,
                             IF offset = 0 THEN << <<RowC>> >> ELSE <<>>)
              [] OTHER -> Response(<<HeadingNone>>, <<>>)

\* ------------------------------------------------------------------ inputs
\* The subject codes code_list is drawn from.
Codes == {600, 601}

\* The facet names language_list is drawn from: two names of build_url's
\* table and one outside it.
Languages == {"Hindi", "English", "Klingon"}

\* The storage roots main may be given: the one the script passes, which is
\* also the one save_code_list writes under, and another one.
DefaultRoot == "../Data/"

Roots == {DefaultRoot, "/alt/"}

SeqsUpTo(S, n) == UNION {[1..k -> S] : k \in 0..n}

CodeLists == SeqsUpTo(Codes, MaxLen)

LanguageLists ==
    {<<"Hindi">>, <<"English">>, <<"Klingon">>, <<"Hindi", "English">>,
     <<"English", "Hindi">>, <<"Klingon", "Hindi">>, <<"Hindi", "Klingon">>}

\* ------------------------------------------------------------------- state
VARIABLES
    language_list,  \* main's argument
    code_list,      \* main's argument
    path,           \* main's argument
    catalog,        \* the remote catalog's content
    universeFile,   \* root -> file 0_subject_list/tech_ddc_codes_list.csv
    ledger,         \* language -> file ddc_codes_scraped_{language}.csv under path
    db,             \* language -> rows of books in parsed_data_{language}.db under path
    pc,             \* where the process is
    langIdx,        \* main's loop: position in language_list
    list_of_codes,  \* parse_language's codes
    codeIdx,        \* parse_language's loop: position in list_of_codes
    url,            \* parse_code's url
    num_res,        \* parse_code's num_res
    num_pages,      \* parse_code's num_pages
    i,              \* parse_code's page index
    exception,      \* the exception that ended the process, "" when none
    run,            \* how many times the process was started
    ledger0,        \* history: the ledgers when this run's main began
    fetchLog,       \* history: the requests this run sent, in order
    unitStart,      \* history: Len(fetchLog) when the current unit began
    remaining0,     \* history: language -> what progress_update_codes returned in this run
    interrupted,    \* history: the unit in progress when the process last ended
    audit,          \* history: language -> what was fetched for each ledger entry
    arg,            \* the argument of a function called on its own, <<>> otherwise
    result          \* what that function returned, <<>> before it returns

vars ==
    <<language_list, code_list, path, catalog, universeFile, ledger, db, pc,
      langIdx, list_of_codes, codeIdx, url, num_res, num_pages, i, exception,
      run, ledger0, fetchLog, unitStart, remaining0, interrupted, audit,
      arg, result>>

inputs == <<language_list, code_list, path, catalog>>

files == <<universeFile, ledger, db>>

locals == <<langIdx, list_of_codes, codeIdx, url, num_res, num_pages, i>>

history == <<ledger0, fetchLog, unitStart, remaining0, interrupted, audit>>

call == <<arg, result>>

\* The loop variables of main and parse_language.
language == language_list[langIdx]

code == list_of_codes[codeIdx]

\* The requests of the current unit.
UnitFetches == SubSeq(fetchLog, unitStart + 1, Len(fetchLog))

\* parse_code is running: a unit is in progress.
InUnit == pc \in {"COUNTING", "NO_RESULTS", "PAGING", "DONE"}

Running == InUnit \/ pc \in {"main", "scrape_language", "parse_language"}

\* The unit in progress, if any, as the history keeps it when the process
\* ends, with what ended the process.
CurrentUnit(cause) ==
    IF InUnit
    THEN <<[language |-> language, code |-> code, fetched |-> Len(UnitFetches),
            cause |-> cause]>>
    ELSE <<>>

Fetch(kind, lang, locator) == [kind |-> kind, language |-> lang, url |-> locator]

\* ------------------------------------------------------------------ start
InitLocals ==
    /\ langIdx = 1
    /\ list_of_codes = <<>>
    /\ codeIdx = 1
    /\ url = NoUrl
    /\ num_res = NoCount
    /\ num_pages = NoCount
    /\ i = 0

\* The first start of the script on storage that holds no ledger and no
\* database yet.  Under a root other than DefaultRoot the universe file is
\* whatever was put there: nothing, or some earlier list.
Init ==
    /\ language_list \in LanguageLists
    /\ code_list \in CodeLists
    /\ catalog \in CatalogNames
    /\ \E root \in Roots, other \in {NoFile, File(<<601, 600>>)} :
          /\ root = DefaultRoot => other = NoFile
          /\ path = root
          /\ universeFile =
                [r \in Roots |-> IF r = DefaultRoot THEN NoFile ELSE other]
    /\ ledger = [l \in Languages |-> NoFile]
    /\ db = [l \in Languages |-> <<>>]
    /\ pc = "main"
    /\ InitLocals
    /\ exception = ""
    /\ run = 1
    /\ ledger0 = ledger
    /\ fetchLog = <<>>
    /\ unitStart = 0
    /\ remaining0 = [l \in Languages |-> <<>>]
    /\ interrupted = <<>>
    /\ audit = [l \in Languages |-> <<>>]
    /\ arg = <<>>
    /\ result = <<>>

\* An exception nothing catches: the process ends with a traceback.
Abort(exc) ==
    /\ pc' = "aborted"
    /\ exception' = exc
    /\ interrupted' = CurrentUnit(exc)
    /\ UNCHANGED <<inputs, call, files, locals, run, ledger0, fetchLog, unitStart,
                   remaining0, audit>>

\* ------------------------------------------------------- campaign driver
\* save_code_list(code_list): writes ../Data/0_subject_list/tech_ddc_codes_list.csv,
\* whatever path is.
save_code_list(file, codes) == File(codes)

\* main: save the code list, enter the loop over language_list.
main ==
    /\ pc = "main"
    /\ universeFile' =
          [universeFile EXCEPT
              ![DefaultRoot] = save_code_list(universeFile[DefaultRoot], code_list)]
    /\ langIdx' = 1
    /\ pc' = "scrape_language"
    /\ ledger0' = ledger
    /\ fetchLog' = <<>>
    /\ unitStart' = 0
    /\ remaining0' = [l \in Languages |-> <<>>]
    /\ UNCHANGED <<inputs, call, ledger, db, list_of_codes, codeIdx, url, num_res,
                   num_pages, i, exception, run, interrupted, audit>>

\* main: the loop over language_list is over.
main_return ==
    /\ pc = "scrape_language"
    /\ langIdx > Len(language_list)
    /\ pc' = "finished"
    /\ interrupted' = <<>>
    /\ UNCHANGED <<inputs, call, files, locals, exception, run, ledger0, fetchLog,
                   unitStart, remaining0, audit>>

\* scrape_language(language, path): progress_update_codes reads the universe
\* file under path (FileNotFoundError is not caught for this file), then the
\* branch on len(list_of_codes).
scrape_language ==
    /\ pc = "scrape_language"
    /\ langIdx <= Len(language_list)
    /\ IF ~universeFile[path].exists THEN Abort("FileNotFoundError")
       ELSE LET remaining ==
                    progress_update_codes(universeFile[path].rows, ledger[language])
            IN  /\ list_of_codes' = remaining
                /\ codeIdx' = 1
                /\ IF Len(remaining) > 0
                   THEN pc' = "parse_language" /\ langIdx' = langIdx
                   ELSE pc' = "scrape_language" /\ langIdx' = langIdx + 1
                /\ remaining0' = [remaining0 EXCEPT ![language] = <<remaining>>]
                /\ UNCHANGED <<inputs, call, files, url, num_res, num_pages, i,
                               exception, run, ledger0, fetchLog, unitStart,
                               interrupted, audit>>

\* parse_language: the loop over codes is over; back in main's loop.
parse_language_return ==
    /\ pc = "parse_language"
    /\ codeIdx > Len(list_of_codes)
    /\ pc' = "scrape_language"
    /\ langIdx' = langIdx + 1
    /\ UNCHANGED <<inputs, call, files, list_of_codes, codeIdx, url, num_res,
                   num_pages, i, exception, run, history>>

\* ------------------------------------------------------ pagination driver
\* parse_code, START -> COUNTING: url = build_url(language, 0, code).
parse_code_start ==
    /\ pc = "parse_language"
    /\ codeIdx <= Len(list_of_codes)
    /\ url' = build_url(language, 0, code)
    /\ pc' = "COUNTING"
    /\ unitStart' = Len(fetchLog)
    /\ UNCHANGED <<inputs, call, files, langIdx, list_of_codes, codeIdx, num_res,
                   num_pages, i, exception, run, ledger0, fetchLog, remaining0,
                   interrupted, audit>>

\* num_of_results(url) on the response: soup.find('h1').text.strip().
num_of_results(resp) == extract_number(Strip(resp.h1[1]))

\* parse_code, COUNTING: num_res = num_of_results(url), num_pages =
\* num_of_pages(num_res), then the branch on num_res.  httpx.get(None) raises
\* before anything is sent; a transport failure and a page without <h1>
\* (AttributeError) raise too, and parse_code catches none of them.
parse_code_count ==
    /\ pc = "COUNTING"
    /\ IF url = NoUrl THEN Abort("TypeError")
       ELSE \E ok \in BOOLEAN :
            LET resp == Remote(catalog, url)
                sent == Append(fetchLog, Fetch("count", language, url))
            IN  IF ~ok \/ resp.h1 = <<>>
                THEN /\ pc' = "aborted"
                     /\ exception' = IF ok THEN "AttributeError" ELSE "TransportError"
                     /\ interrupted' = CurrentUnit(exception')
                     /\ fetchLog' = sent
                     /\ UNCHANGED <<inputs, call, files, locals, run, ledger0,
                                    unitStart, remaining0, audit>>
                ELSE /\ num_res' = num_of_results(resp)
                     /\ num_pages' = num_of_pages(num_res')
                     /\ i' = 0
                     /\ pc' = IF num_res' = NoCount THEN "NO_RESULTS" ELSE "PAGING"
                     /\ fetchLog' = sent
                     /\ UNCHANGED <<inputs, call, files, langIdx, list_of_codes,
                                    codeIdx, url, exception, run, ledger0,
                                    unitStart, remaining0, interrupted, audit>>

\* parse_code, NO_RESULTS: print "No results found", then the closing prints.
parse_code_no_results ==
    /\ pc = "NO_RESULTS"
    /\ pc' = "DONE"
    /\ UNCHANGED <<inputs, call, files, locals, exception, run, history>>

RECURSIVE SaveBooks(_, _)
\* for book in books: save_to_database(path, parse_book(book))
SaveBooks(table, books) ==
    IF books = <<>> THEN table
    ELSE SaveBooks(save_to_database(table, <<parse_book(Head(books))>>),
                   Tail(books))

\* A page parser that stores an empty record for a page without rows.
parse_page_placeholder(table, resp) ==
    IF resp.table = <<>> \/ Len(resp.table[1]) = 0
    THEN save_to_database(table, <<parse_book(RowD)>>)
    ELSE SaveBooks(table, resp.table[1])

\* parse_page(url, path) on the response: no div.searchresults (the
\* AttributeError is caught) and no <tr> leave the table as it is.
parse_page(table, resp) ==
    IF resp.table = <<>> THEN table
    ELSE IF Len(resp.table[1]) = 0 THEN table
    ELSE SaveBooks(table, resp.table[1])

\* A loop that takes one index more.
PageRangeInclusive(pages) == 0..pages

\* The page indexes parse_code's loop runs over: range(0, num_pages).
PageRange(pages) == 0..(pages - 1)

\* A page loop that keeps one database for all languages.
parse_code_page_shared ==
    /\ pc = "PAGING"
    /\ i \in PageRange(num_pages)
    /\ LET next == build_url(language, i * PageSize, code)
           sent == Append(fetchLog, Fetch("page", language, next))
       IN  \E ok \in BOOLEAN :
             IF ~ok
             THEN /\ pc' = "aborted"
                  /\ exception' = "TransportError"
                  /\ interrupted' = CurrentUnit("TransportError")
                  /\ fetchLog' = sent
                  /\ UNCHANGED <<inputs, call, files, locals, run, ledger0,
                                 unitStart, remaining0, audit>>
             ELSE /\ url' = next
                  /\ db' = [l \in Languages |->
                              parse_page(db[l], Remote(catalog, next))]
                  /\ i' = i + 1
                  /\ fetchLog' = sent
                  /\ UNCHANGED <<inputs, call, universeFile, ledger, pc, langIdx,
                                 list_of_codes, codeIdx, num_res, num_pages,
                                 exception, run, ledger0, unitStart, remaining0,
                                 interrupted, audit>>

\* A page loop that catches the transport failure, notes it and goes on to
\* the next page.
parse_code_page_caught ==
    /\ pc = "PAGING"
    /\ i \in PageRange(num_pages)
    /\ LET next == build_url(language, i * PageSize, code)
       IN  \E ok \in BOOLEAN :
             /\ url' = next
             /\ db' = [db EXCEPT
                         ![language] = IF ok THEN parse_page(@, Remote(catalog, next))
                                       ELSE @]
             /\ exception' = IF ok THEN exception ELSE "TransportError"
             /\ i' = i + 1
             /\ fetchLog' = Append(fetchLog, Fetch("page", language, next))
             /\ UNCHANGED <<inputs, call, universeFile, ledger, pc, langIdx,
                            list_of_codes, codeIdx, num_res, num_pages, run,
                            ledger0, unitStart, remaining0, interrupted, audit>>

\* parse_code, PAGING: one turn of the loop, url = build_url(language, i*100,
\* code), parse_page(url, database_path).  A transport failure raises.
parse_code_page ==
    /\ pc = "PAGING"
    /\ i \in PageRange(num_pages)
    /\ LET next == build_url(language, i * PageSize, code)
           sent == Append(fetchLog, Fetch("page", language, next))
       IN  \E ok \in BOOLEAN :
             IF ~ok
             THEN /\ pc' = "aborted"
                  /\ exception' = "TransportError"
                  /\ interrupted' = CurrentUnit("TransportError")
                  /\ fetchLog' = sent
                  /\ UNCHANGED <<inputs, call, files, locals, run, ledger0,
                                 unitStart, remaining0, audit>>
             ELSE /\ url' = next
                  /\ db' = [db EXCEPT
                              ![language] = parse_page(@, Remote(catalog, next))]
                  /\ i' = i + 1
                  /\ fetchLog' = sent
                  /\ UNCHANGED <<inputs, call, universeFile, ledger, pc, langIdx,
                                 list_of_codes, codeIdx, num_res, num_pages,
                                 exception, run, ledger0, unitStart, remaining0,
                                 interrupted, audit>>

\* parse_code, PAGING -> DONE: the loop is over, the closing prints.
parse_code_return ==
    /\ pc = "PAGING"
    /\ i \notin PageRange(num_pages)
    /\ pc' = "DONE"
    /\ UNCHANGED <<inputs, call, files, locals, exception, run, history>>

\* parse_language after parse_code returned: sleep, then
\* save_code_scraped(language, path, code) and the next code.  states are
\* the positions of parse_code from which control gets here.
MarkAt(states) ==
    /\ pc \in states
    /\ ledger' = [ledger EXCEPT ![language] = save_code_scraped(@, code)]
    /\ audit' = [audit EXCEPT
                    ![language] = Append(@, [code |-> code, fetches |-> UnitFetches])]
    /\ codeIdx' = codeIdx + 1
    /\ pc' = "parse_language"
    /\ UNCHANGED <<inputs, call, universeFile, db, langIdx, list_of_codes, url,
                   num_res, num_pages, i, exception, run, ledger0, fetchLog,
                   unitStart, remaining0, interrupted>>

\* A driver that records the unit as soon as its count is known.
mark_complete_early == MarkAt({"DONE", "PAGING"})

\* A driver that records only the units that had results.
mark_complete_if_results ==
    IF num_res # NoCount THEN MarkAt({"DONE"})
    ELSE /\ pc = "DONE"
         /\ codeIdx' = codeIdx + 1
         /\ pc' = "parse_language"
         /\ UNCHANGED <<inputs, call, files, langIdx, list_of_codes, url, num_res,
                        num_pages, i, exception, run, history>>

mark_complete == MarkAt({"DONE"})

\* ------------------------------------------------------------ the process
\* The process is terminated from outside, between two steps.
Crash ==
    /\ Running
    /\ pc' = "terminated"
    /\ interrupted' = CurrentUnit("terminated")
    /\ UNCHANGED <<inputs, call, files, locals, exception, run, ledger0, fetchLog,
                   unitStart, remaining0, audit>>

\* The script is started again with the same arguments.
Restart ==
    /\ pc \in {"finished", "aborted", "terminated"}
    /\ run < MaxRuns
    /\ run' = run + 1
    /\ pc' = "main"
    /\ langIdx' = 1
    /\ list_of_codes' = <<>>
    /\ codeIdx' = 1
    /\ url' = NoUrl
    /\ num_res' = NoCount
    /\ num_pages' = NoCount
    /\ i' = 0
    /\ exception' = ""
    /\ UNCHANGED <<inputs, call, files, history>>

Step ==
    \/ main
    \/ main_return
    \/ scrape_language
    \/ parse_language_return
    \/ parse_code_start
    \/ parse_code_count
    \/ parse_code_no_results
    \/ parse_code_page
    \/ parse_code_return
    \/ mark_complete

Next ==
    \/ Step
    \/ Crash
    \/ Restart

Spec == Init /\ [][Next]_vars

\* ------------------------------------------- the pure functions on their own
\* Everything but the arguments and the result, at rest.
AtRest ==
    /\ language_list = <<"Hindi">>
    /\ code_list = <<>>
    /\ path = DefaultRoot
    /\ catalog = "A"
    /\ db = [l \in Languages |-> <<>>]
    /\ langIdx = 1
    /\ codeIdx = 1
    /\ url = NoUrl
    /\ i = 0
    /\ exception = ""
    /\ run = 1
    /\ ledger0 = [l \in Languages |-> NoFile]
    /\ fetchLog = <<>>
    /\ unitStart = 0
    /\ remaining0 = [l \in Languages |-> <<>>]
    /\ interrupted = <<>>
    /\ audit = [l \in Languages |-> <<>>]

\* No function is being called on its own.
NoCall ==
    /\ arg = <<>>
    /\ result = <<>>

\* The codes the universes and ledgers of SpecRemaining are made of.
UniverseCodes == {600, 601, 602, 603}

\* progress_update_codes on any universe file and any ledger, missing or not.
InitRemaining ==
    /\ AtRest
    /\ NoCall
    /\ \E universe \in SeqsUpTo(UniverseCodes, MaxUniverse) :
          universeFile = [r \in Roots |-> IF r = path THEN File(universe) ELSE NoFile]
    /\ \E file \in {NoFile} \cup {File(rows) : rows \in SeqsUpTo(UniverseCodes, MaxLen)} :
          ledger = [l \in Languages |-> IF l = "Hindi" THEN file ELSE NoFile]
    /\ list_of_codes = <<>>
    /\ num_res = NoCount
    /\ num_pages = NoCount
    /\ pc = "call_progress_update_codes"

call_progress_update_codes ==
    /\ pc = "call_progress_update_codes"
    /\ list_of_codes' =
          progress_update_codes(universeFile[path].rows, ledger[language])
    /\ pc' = "ret_progress_update_codes"
    /\ UNCHANGED <<inputs, call, files, langIdx, codeIdx, url, num_res, num_pages, i,
                   exception, run, history>>

SpecRemaining == InitRemaining /\ [][call_progress_update_codes]_vars

\* num_of_pages on None and on every count up to MaxCount.
InitPages ==
    /\ AtRest
    /\ NoCall
    /\ universeFile = [r \in Roots |-> NoFile]
    /\ ledger = [l \in Languages |-> NoFile]
    /\ list_of_codes = <<>>
    /\ num_res \in (0..MaxCount) \cup {NoCount}
    /\ num_pages = NoCount
    /\ pc = "call_num_of_pages"

call_num_of_pages ==
    /\ pc = "call_num_of_pages"
    /\ num_pages' = num_of_pages(num_res)
    /\ pc' = "ret_num_of_pages"
    /\ UNCHANGED <<inputs, call, files, langIdx, list_of_codes, codeIdx, url, num_res,
                   i, exception, run, history>>

SpecPages == InitPages /\ [][call_num_of_pages]_vars

\* The program's own state while one of the text functions is called.
Idle ==
    /\ AtRest
    /\ universeFile = [r \in Roots |-> NoFile]
    /\ ledger = [l \in Languages |-> NoFile]
    /\ list_of_codes = <<>>
    /\ num_res = NoCount
    /\ num_pages = NoCount
    /\ result = <<>>

\* The characters the headings of SpecCount are made of.
HeadingChars == {"0", "1", "7", ",", " ", "r"}

\* num_of_results on a page whose <h1> holds any text of up to MaxText
\* characters.
InitCount ==
    /\ Idle
    /\ arg \in SeqsUpTo(HeadingChars, MaxText)
    /\ pc = "call_num_of_results"

call_num_of_results ==
    /\ pc = "call_num_of_results"
    /\ result' = num_of_results(Response(<<arg>>, <<>>))
    /\ pc' = "ret_num_of_results"
    /\ UNCHANGED <<inputs, arg, files, locals, exception, run, history>>

SpecCount == InitCount /\ [][call_num_of_results]_vars

\* The row fragments of SpecBook: each element missing, or as in RowA, or as
\* in RowB; the title element also without a direct string.
Fragments ==
    [title : {<<>>, RowA.title, RowB.title, << <<>> >>},
     call_number : {<<>>, RowA.call_number, RowB.call_number},
     author : {<<>>, RowA.author},
     booktype : {<<>>, RowA.booktype, RowB.booktype},
     form : {<<>>, RowA.form, RowB.form},
     language : {<<>>, RowA.language, RowB.language},
     year : {<<>>, RowA.year},
     link : {<<>>, RowA.link, RowB.link}]

\* parse_book on any of these fragments; result is the list of the tuples the
\* generator yields.
InitBook ==
    /\ Idle
    /\ arg \in Fragments
    /\ pc = "call_parse_book"

call_parse_book ==
    /\ pc = "call_parse_book"
    /\ result' = <<parse_book(arg)>>
    /\ pc' = "ret_parse_book"
    /\ UNCHANGED <<inputs, arg, files, locals, exception, run, history>>

SpecBook == InitBook /\ [][call_parse_book]_vars

\* The characters the titles of SpecTitle are made of.
TitleChars == {"a", " ", "\n", "\t", "\r", "/"}

\* clean_title on any title of up to MaxText characters.
InitTitle ==
    /\ Idle
    /\ arg \in SeqsUpTo(TitleChars, MaxText)
    /\ pc = "call_clean_title"

call_clean_title ==
    /\ pc = "call_clean_title"
    /\ result' = clean_title(arg)
    /\ pc' = "ret_clean_title"
    /\ UNCHANGED <<inputs, arg, files, locals, exception, run, history>>

SpecTitle == InitTitle /\ [][call_clean_title]_vars

\* ------------------------------------------------------------- properties
\* The facet names of the fixed table.
FacetTable ==
    {"Hindi", "Bengali", "Tamil", "Marathi", "Urdu", "Kannada", "English"}

\* The entries of a ledger or universe file, none when the file is missing.
Rows(file) == IF file.exists THEN file.rows ELSE <<>>

\* How many times row occurs in table.
Count(table, row) == Cardinality({k \in DOMAIN table : table[k] = row})

\* The count the catalog's heading carries for (l, c); NoCount when it
\* carries none.
ServedCount(locator) ==
    LET h1 == Remote(catalog, locator).h1
    IN  IF h1 = <<>> THEN NoCount ELSE extract_number(Strip(h1[1]))

\* ceiling(n / 100) by its defining inequalities; no pages for no count.
PagesNeeded(n) ==
    IF n = NoCount THEN 0
    ELSE CHOOSE p \in 0..n : p * 100 >= n /\ (p = 0 \/ (p - 1) * 100 < n)

\* The audit entry e of language l shows a whole unit: the count request at
\* offset 0, then one page request per page at offsets 0, 100, ..., and the
\* records of every one of these pages are in l's store.
UnitAudited(l, e) ==
    /\ Len(e.fetches) >= 1
    /\ LET first == e.fetches[1]
           p == PagesNeeded(ServedCount(first.url))
       IN  /\ first.kind = "count" /\ first.language = l
           /\ first.url[2] = e.code /\ first.url[3] = 0
           /\ Len(e.fetches) = p + 1
           /\ \A j \in 1..p :
                LET f == e.fetches[j + 1]
                    table == Remote(catalog, f.url).table
                IN  /\ f.kind = "page" /\ f.language = l
                    /\ f.url[1] = first.url[1] /\ f.url[2] = e.code
                    /\ f.url[3] = (j - 1) * 100
                    /\ table # <<>> =>
                          \A k \in DOMAIN table[1] :
                              Count(db[l], parse_book(table[1][k])) >= 1

\* C1 (as claimed, on the script's own storage root): a store never holds two rows with the same (title,
\* author, year), so storing a record whose identity is already stored adds
\* no row.
C1_NoDuplicateIdentity ==
    path = DefaultRoot =>
        \A l \in Languages : \A a, b \in DOMAIN db[l] :
            a # b => Identity(db[l][a]) # Identity(db[l][b])

\* C2: progress_update_codes returns the universe with the positions whose
\* code is in the ledger left out, the others in their order; a missing
\* ledger counts as empty and the whole universe comes back.
C2_RemainingIsUniverseMinusLedger ==
    pc = "ret_progress_update_codes" =>
        LET universe == universeFile[path].rows
            done == Range(Rows(ledger[language]))
            keep == {k \in DOMAIN universe : universe[k] \notin done}
        IN  /\ Len(list_of_codes) = Cardinality(keep)
            /\ \A j \in DOMAIN list_of_codes :
                  \E k \in keep :
                      /\ Cardinality({m \in keep : m <= k}) = j
                      /\ list_of_codes[j] = universe[k]
            /\ ~ledger[language].exists => list_of_codes = universe

\* C2 witness: universe [600, 601, 602, 603], ledger [600, 601], result
\* [602, 603].
C2_Witness ==
    /\ pc = "ret_progress_update_codes"
    /\ universeFile[path].rows = <<600, 601, 602, 603>>
    /\ ledger[language] = File(<<600, 601>>)
    /\ list_of_codes = <<602, 603>>

\* C3: in every reachable state, terminated ones included, each code in a
\* facet's ledger was appended after its unit's count request and all
\* ceil(count/100) page requests, whose records are in the facet's store.
C3_LedgerInvariant ==
    \A l \in Languages :
        /\ Len(audit[l]) = Len(Rows(ledger[l]))
        /\ \A k \in DOMAIN audit[l] :
              /\ audit[l][k].code = ledger[l].rows[k]
              /\ UnitAudited(l, audit[l][k])

\* C3 witness: the process was terminated with a two-page unit in a ledger.
C3_Witness ==
    /\ pc = "terminated"
    /\ \E l \in Languages : \E k \in DOMAIN audit[l] :
          /\ Len(audit[l][k].fetches) = 3
          /\ ledger[l].rows[k] = audit[l][k].code

\* C4 (as claimed, on the script's own storage root): a unit of a facet
\* outside the table gets no locator, sends no request and does not end the
\* process: the driver goes to DONE.
C4_UnsupportedFacetReachesDone ==
    (/\ path = DefaultRoot
     /\ langIdx \in DOMAIN language_list
     /\ language \notin FacetTable
     /\ InUnit \/ (pc = "aborted" /\ interrupted # <<>>))
    => (url = NoUrl /\ UnitFetches = <<>> /\ pc # "aborted")

\* C5 (as claimed, on the script's own storage root): an unrecognized facet
\* name does not keep the other facets from being processed: unless a
\* request or a file fails, the process ends with all codes of the universe
\* in the ledger of every recognized facet of the list.
C5_UnsupportedFacetSkipped ==
    (/\ path = DefaultRoot
     /\ pc \in {"finished", "aborted"}
     /\ exception \notin {"TransportError", "AttributeError", "FileNotFoundError"})
    => \A k \in DOMAIN language_list :
          language_list[k] \in FacetTable =>
              Range(Rows(universeFile[path])) \subseteq
                  Range(Rows(ledger[language_list[k]]))

\* C9 (as claimed): num_of_pages returns ceiling(count / 100) for a count
\* and 0 for no count.
C9_PagesCeilingOrZero ==
    pc = "ret_num_of_pages" => num_pages = PagesNeeded(num_res)

\* C9 (amended): num_of_pages returns ceiling(count / 100) for a count, 0
\* for count 0, and None, not 0, for no count.
C9_PagesCeilingOrNone ==
    pc = "ret_num_of_pages" =>
        IF num_res = NoCount THEN num_pages = NoCount
        ELSE num_pages = PagesNeeded(num_res)

\* C9 witness: 250 results give 3 pages.
C9_Witness == pc = "ret_num_of_pages" /\ num_res = 250 /\ num_pages = 3

RECURSIVE StorePages(_, _, _, _, _)
\* The store after pages j, j + 1, ..., p - 1 of unit (l, c) were parsed.
StorePages(table, l, c, j, p) ==
    IF j >= p THEN table
    ELSE StorePages(parse_page(table, Remote(catalog, build_url(l, j * 100, c))),
                    l, c, j + 1, p)

RECURSIVE StoreUnits(_, _, _)
\* The store of facet l after one campaign over codes that nothing interrupts.
StoreUnits(table, l, codes) ==
    IF codes = <<>> THEN table
    ELSE LET c == Head(codes)
             p == PagesNeeded(ServedCount(build_url(l, 0, c)))
         IN  StoreUnits(StorePages(table, l, c, 0, p), l, Tail(codes))

NoRepeat(list) == \A a, b \in DOMAIN list : a # b => list[a] # list[b]

\* The run after an interruption computed the facet's remaining codes and
\* the interrupted unit's code is among them.
InterruptedUnitRemains ==
    interrupted # <<>> =>
        LET unit == interrupted[1]
        IN  remaining0[unit.language] # <<>> =>
                \E k \in DOMAIN remaining0[unit.language][1] :
                    remaining0[unit.language][1][k] = unit.code

\* A unit's requests are the count at offset 0, then pages from offset 0 on.
UnitStartsAtZero ==
    InUnit =>
        \A j \in DOMAIN UnitFetches :
            /\ UnitFetches[j].language = language
            /\ UnitFetches[j].url[2] = code
            /\ UnitFetches[j].kind = (IF j = 1 THEN "count" ELSE "page")
            /\ UnitFetches[j].url[3] = (IF j = 1 THEN 0 ELSE (j - 2) * 100)

\* No request of this run is for a code the ledger held when the run began.
LedgerCodesNotFetched ==
    \A k \in DOMAIN fetchLog :
        \A m \in DOMAIN Rows(ledger0[fetchLog[k].language]) :
            ledger0[fetchLog[k].language].rows[m] # fetchLog[k].url[2]

\* C6 (as claimed, on the script's own storage root): unless a request or a
\* file fails, the campaign ends with every recognized facet's ledger equal
\* to its ledger at the start followed by the remaining codes, each unit
\* with all its pages requested.
C6_CampaignCompletes ==
    (/\ path = DefaultRoot
     /\ pc \in {"finished", "aborted"}
     /\ exception \notin {"TransportError", "AttributeError", "FileNotFoundError"})
    => \A n \in DOMAIN language_list :
          LET l == language_list[n]
          IN  l \in FacetTable =>
                /\ remaining0[l] # <<>>
                /\ Rows(ledger[l]) = Rows(ledger0[l]) \o remaining0[l][1]
                /\ \A k \in DOMAIN audit[l] : UnitAudited(l, audit[l][k])

\* C7 (as claimed): the code of a unit that was in progress when the process
\* ended is among the facet's remaining codes in the next run, every unit
\* starts at offset 0, and no request is sent for a code already in the
\* ledger.
C7_InterruptedUnitRestarts ==
    /\ InterruptedUnitRemains
    /\ UnitStartsAtZero
    /\ LedgerCodesNotFetched

\* C7 (amended): the same, for a universe without a repeated code.
C7_InterruptedUnitRestartsIfNoRepeat ==
    /\ NoRepeat(Rows(universeFile[path])) => InterruptedUnitRemains
    /\ UnitStartsAtZero
    /\ LedgerCodesNotFetched

\* C7 witness: a unit ended after its first page is in progress again in the
\* next run, its page at offset 0 requested again, with a code of the ledger
\* left out.
C7_Witness ==
    /\ run > 1
    /\ InUnit
    /\ interrupted # <<>>
    /\ interrupted[1].language = language
    /\ interrupted[1].code = code
    /\ interrupted[1].fetched >= 2
    /\ Len(UnitFetches) >= 2
    /\ UnitFetches[2].url[3] = 0
    /\ Len(Rows(ledger0[language])) >= 1

\* C8 (as claimed, on the script's own storage root and for a universe
\* without a repeated code): when a campaign finishes, after whatever
\* interruptions, each facet's store holds what one uninterrupted campaign
\* leaves there, no row more.
C8_RestartLeavesSameStore ==
    (path = DefaultRoot /\ NoRepeat(code_list) /\ pc = "finished") =>
        \A n \in DOMAIN language_list :
            LET l == language_list[n]
                whole == StoreUnits(<<>>, l, code_list)
            IN  l \in FacetTable =>
                    \A row \in Range(db[l]) \cup Range(whole) :
                        Count(db[l], row) = Count(whole, row)

\* C10: a unit whose count is None goes from COUNTING to NO_RESULTS and on to
\* DONE with no page request and no row stored, and the step after DONE
\* appends its code to the facet's ledger.
C10_ZeroResultUnitComplete ==
    [][/\ pc = "COUNTING" =>
            /\ db' = db
            /\ pc' \in {"NO_RESULTS", "PAGING"} =>
                  (pc' = "NO_RESULTS" <=> num_res' = NoCount)
       /\ pc = "NO_RESULTS" =>
            /\ pc' \in {"DONE", "terminated"}
            /\ db' = db
            /\ fetchLog' = fetchLog
            /\ Len(UnitFetches) = 1
       /\ (pc = "DONE" /\ num_res = NoCount /\ pc' # "terminated") =>
            /\ Len(UnitFetches) = 1
            /\ ledger' = [ledger EXCEPT
                            ![language] = File(Append(Rows(@), code))]
      ]_vars

\* C10 witness: a ledger holds the code of a unit that had no count, no
\* page request and no stored row.
C10_Witness ==
    \E l \in Languages : \E k \in DOMAIN audit[l] :
        /\ Len(audit[l][k].fetches) = 1
        /\ ServedCount(audit[l][k].fetches[1].url) = NoCount
        /\ k \in DOMAIN Rows(ledger[l])
        /\ ledger[l].rows[k] = audit[l][k].code
        /\ db[l] = <<>>

\* The digit characters of text, in their order: the positions that hold a
\* digit, numbered from the left.
DigitPositions(text) == {k \in DOMAIN text : text[k] \in Digits}

RECURSIVE Pow10(_)
Pow10(n) == IF n = 0 THEN 1 ELSE 10 * Pow10(n - 1)

RECURSIVE PlaceValueSum(_, _)
\* The sum, over the positions of P, of the digit there times ten to the
\* number of digit positions to its right.
PlaceValueSum(text, P) ==
    IF P = {} THEN 0
    ELSE LET k == CHOOSE m \in P : TRUE
             right == Cardinality({m \in DigitPositions(text) : m > k})
         IN  DigitVal(text[k]) * Pow10(right) + PlaceValueSum(text, P \ {k})

\* C11: for every heading text num_of_results returns the integer whose
\* decimal digits are the digits of the heading in their order of occurrence
\* (the digit runs concatenated), and None exactly when the heading holds no
\* digit; it returns for every heading, the one without digits included.
C11_CountIsConcatenatedDigitRuns ==
    pc = "ret_num_of_results" =>
        IF DigitPositions(arg) = {} THEN result = NoCount
        ELSE /\ result = PlaceValueSum(arg, DigitPositions(arg))
             /\ result # NoCount

\* C11 witness: the heading "1,70" gives 170.
C11_Witness ==
    /\ pc = "ret_num_of_results"
    /\ arg = <<"1", ",", "7", "0">>
    /\ result = 170

\* The page served for the request f has no results container, or has one
\* with no row in it.
NoContainer(f) == Remote(catalog, f.url).table = <<>>

ZeroRows(f) == Remote(catalog, f.url).table = << <<>> >>

\* C12: when the page of the current index has no results container, or a
\* container with zero rows, the page step stores nothing and goes on to the
\* next index (the only exception that can end it is the request's own
\* failure); when the indexes are used up the driver goes to DONE, and the
\* step after DONE marks the unit complete.
C12_MissingContainerContinues ==
    [][/\ (pc = "PAGING" /\ i \in PageRange(num_pages)) =>
            LET f == Fetch("page", language, build_url(language, i * PageSize, code))
            IN  (NoContainer(f) \/ ZeroRows(f)) =>
                    /\ pc' \in {"PAGING", "aborted", "terminated"}
                    /\ pc' = "aborted" => exception' = "TransportError"
                    /\ db' = db
                    /\ pc' = "PAGING" =>
                          /\ i' = i + 1
                          /\ fetchLog' = Append(fetchLog, f)
       /\ (pc = "PAGING" /\ i \notin PageRange(num_pages)) =>
            pc' \in {"DONE", "terminated"}
       /\ (pc = "DONE" /\ num_res # NoCount /\ pc' # "terminated") =>
            /\ pc' = "parse_language"
            /\ Rows(ledger'[language]) = Append(Rows(ledger[language]), code)
      ]_vars

\* C12 witness: the ledgers hold one unit that had a page without a results
\* container and one that had a page with an empty container.
C12_Witness ==
    /\ \E l \in Languages : \E k \in DOMAIN audit[l] :
          /\ k \in DOMAIN Rows(ledger[l])
          /\ \E j \in DOMAIN audit[l][k].fetches :
                LET f == audit[l][k].fetches[j]
                IN  f.kind = "page" /\ NoContainer(f)
    /\ \E l \in Languages : \E k \in DOMAIN audit[l] :
          /\ k \in DOMAIN Rows(ledger[l])
          /\ \E j \in DOMAIN audit[l][k].fetches :
                LET f == audit[l][k].fetches[j]
                IN  f.kind = "page" /\ ZeroRows(f)

\* The fields of a record, in the order of the tuple.
FieldNames ==
    <<"title", "call_number", "author", "booktype", "form", "language",
      "year", "link">>

\* The value each sample text of Fragments stands for, written out: the
\* title cleaned, the call number trimmed, the material type without its
\* label, form and language without theirs; a language text without a colon
\* and a title element without a string give no value.
SampleValue(field, text) ==
    CASE field = "title" /\ text = <<" ", "F", "o", "\n", "/">> -> << <<"F", "o">> >>
      [] field = "title" /\ text = <<"F", "o", "\t">> -> << <<"F", "o">> >>
      [] field = "title" /\ text = <<>> -> <<>>
      [] field = "call_number" /\ text = <<"6", "0", "0", " ">> -> << <<"6", "0", "0">> >>
      [] field = "call_number" /\ text = <<"6", "0", "1">> -> << <<"6", "0", "1">> >>
      [] field = "author" /\ text = <<"A">> -> << <<"A">> >>
      [] field = "booktype" /\ text \in {MaterialTypeLabel \o <<"B", "k">>, <<"B", "k">>}
            -> << <<"B", "k">> >>
      [] field = "form" /\ text \in {<<"f", ":", " ", "N">>, <<"N">>} -> << <<"N">> >>
      [] field = "language" /\ text = <<"l", ":", "H">> -> << <<"H">> >>
      [] field = "language" /\ text = <<"H">> -> <<>>
      [] field = "year" /\ text = <<"1", "9">> -> << <<"1", "9">> >>
      [] field = "link" /\ text \in {<<"u", "1">>, <<"u", "2">>} -> <<text>>

\* C13: for every row fragment and every set of its elements that is
\* missing, parse_book returns, and yields exactly one record of eight
\* fields; the field of a missing element is None and the field of a present
\* element holds the value extracted from that element alone, whatever the
\* other elements are.
C13_RecordMapperNeverFails ==
    pc = "ret_parse_book" =>
        /\ Len(result) = 1
        /\ Len(result[1]) = 8
        /\ \A k \in 1..8 :
              LET element == arg[FieldNames[k]]
              IN  IF element = <<>> THEN result[1][k] = <<>>
                  ELSE result[1][k] = SampleValue(FieldNames[k], element[1])

\* C13 witness: RowA without its author paragraph gives a record whose
\* author is None and whose seven other fields have a value.
C13_Witness ==
    /\ pc = "ret_parse_book"
    /\ arg = [RowA EXCEPT !.author = <<>>]
    /\ result[1][3] = <<>>
    /\ \A k \in (1..8) \ {3} : result[1][k] # <<>>

\* The three characters clean_title removes.
Removed == {"\n", "\t", "/"}

\* C14: for every title clean_title returns the characters of the title that
\* are not newline, tab or slash, in their order, from the first to the last
\* of them that is not whitespace (nothing when there is none); the result
\* holds none of the three characters, and cleaning it again returns it
\* unchanged.
C14_TitleCleaned ==
    pc = "ret_clean_title" =>
        LET kept == {k \in DOMAIN arg : arg[k] \notin Removed}
            solid == {k \in kept : arg[k] \notin Whitespace}
            inner == {k \in kept : /\ \E m \in solid : m <= k
                                   /\ \E m \in solid : m >= k}
        IN  /\ Len(result) = Cardinality(inner)
            /\ \A k \in inner :
                  result[Cardinality({m \in inner : m <= k})] = arg[k]
            /\ Range(result) \cap Removed = {}
            /\ clean_title(result) = result

\* C14 witness: the title "/ a\n" is cleaned to "a".
C14_Witness ==
    /\ pc = "ret_clean_title"
    /\ arg = <<"/", " ", "a", "\n">>
    /\ result = <<"a">>

\* The page requests of the current unit: its requests after the count.
UnitPages == SubSeq(UnitFetches, 2, Len(UnitFetches))

\* C15: for a unit whose count n is present, the page requests sent so far
\* are those of the indexes 0 .. i-1, the j-th at offset (j-1)*100 for the
\* unit's language and code, so in strictly increasing offset order and each
\* offset once; none is at an offset >= ceil(n/100)*100; and at DONE there
\* are exactly ceil(n/100) of them.
C15_PageIteration ==
    (pc \in {"PAGING", "DONE"} /\ num_res # NoCount) =>
        LET p == PagesNeeded(num_res)
        IN  /\ Len(UnitFetches) >= 1
            /\ num_res = ServedCount(UnitFetches[1].url)
            /\ Len(UnitPages) = i
            /\ i <= p
            /\ pc = "DONE" => i = p
            /\ \A j \in DOMAIN UnitPages :
                  /\ UnitPages[j].kind = "page"
                  /\ UnitPages[j].language = language
                  /\ UnitPages[j].url[2] = code
                  /\ UnitPages[j].url[3] = (j - 1) * 100
                  /\ UnitPages[j].url[3] < p * 100
            /\ \A a, b \in DOMAIN UnitPages :
                  a < b => UnitPages[a].url[3] < UnitPages[b].url[3]

\* C15 witness: a unit of 250 results is at DONE after the pages at offsets
\* 0, 100 and 200.
C15_Witness ==
    /\ pc = "DONE"
    /\ num_res = 250
    /\ Len(UnitPages) = 3
    /\ UnitPages[3].url[3] = 200

\* An exception was raised only in a process that it ended.
ExceptionEndsProcess == exception # "" => pc = "aborted"

\* The step in which a request fails appends nothing to a ledger and stores
\* nothing, and the process it ended takes no step but being started again:
\* no request, no store, no ledger entry.
NothingAfterAbort ==
    /\ exception' = "TransportError" => (ledger' = ledger /\ db' = db)
    /\ pc = "aborted" =>
          /\ pc' = "main"
          /\ run' = run + 1
          /\ fetchLog' = fetchLog
          /\ files' = files

\* In the run after one that a failed request ended, the failed unit's code
\* is the first of its facet's remaining codes and the run's first request is
\* that unit's count request.
NextRunStartsAtFailedUnit ==
    (/\ run > 1
     /\ Running
     /\ pc # "main"
     /\ interrupted # <<>>
     /\ interrupted[1].cause = "TransportError")
    => LET unit == interrupted[1]
       IN  /\ remaining0[unit.language] # <<>> =>
                 /\ remaining0[unit.language][1] # <<>>
                 /\ Head(remaining0[unit.language][1]) = unit.code
           /\ fetchLog # <<>> =>
                 fetchLog[1] = Fetch("count", unit.language,
                                     build_url(unit.language, 0, unit.code))

\* C16 (as claimed): a transport failure of a request is not caught: it ends
\* the process, after it nothing more is requested, stored or marked in that
\* run, the code of the unit in progress is not appended to the ledger, and
\* the next run starts again at that unit.
C16_TransportFailureAborts ==
    /\ [](ExceptionEndsProcess /\ NextRunStartsAtFailedUnit)
    /\ [][NothingAfterAbort]_vars

\* C16 (amended): the same, the next run starting again at that unit when
\* the universe has no repeated code.
C16_TransportFailureAbortsIfNoRepeat ==
    /\ [](/\ ExceptionEndsProcess
          /\ NoRepeat(Rows(universeFile[path])) => NextRunStartsAtFailedUnit)
    /\ [][NothingAfterAbort]_vars

\* C16 witness: a page request failed after the unit's count and first page
\* were fetched, and in the next run that unit is in progress again, first
\* of the run.
C16_Witness ==
    /\ run > 1
    /\ InUnit
    /\ interrupted # <<>>
    /\ interrupted[1].cause = "TransportError"
    /\ interrupted[1].fetched >= 2
    /\ interrupted[1].language = language
    /\ interrupted[1].code = code
    /\ unitStart = 0
    /\ Len(fetchLog) >= 1

\* C17 (as claimed): whatever storage root main is given, once main has
\* saved the code list the universe file under that root holds exactly
\* code_list, no facet's remaining codes are computed without it, and every
\* remaining(facet) of the run is made of code_list: its codes that were not
\* in the facet's ledger when the run began.
C17_UniverseWrittenUnderRoot ==
    ((Running /\ pc # "main") \/ pc \in {"finished", "aborted"}) =>
        /\ universeFile[path] = File(code_list)
        /\ exception # "FileNotFoundError"
        /\ \A l \in Languages :
              remaining0[l] # <<>> =>
                  /\ Range(remaining0[l][1]) \subseteq Range(code_list)
                  /\ \A c \in Range(code_list) :
                        c \in Range(remaining0[l][1])
                            <=> c \notin Range(Rows(ledger0[l]))

\* A step that changes a facet's ledger is the marking of the current unit:
\* the file exists afterwards and holds the entries it held, in their order,
\* followed by the unit's code and nothing else; a ledger that did not exist
\* holds exactly that code.
LedgerStepAppendsOne ==
    \A l \in Languages :
        ledger'[l] # ledger[l] =>
            /\ pc = "DONE"
            /\ l = language
            /\ ledger'[l].exists
            /\ ledger'[l].rows = Append(Rows(ledger[l]), code)
            /\ ~ledger[l].exists => ledger'[l].rows = <<code>>

\* C18: save_code_scraped keeps every entry of the facet's ledger in place
\* and adds exactly one, the code, at the end, creating the ledger with that
\* one entry when it does not exist; so within a run every ledger has the
\* ledger of the run's start, and each earlier state, as a prefix.
C18_LedgerAppendOnly ==
    /\ [][LedgerStepAppendsOne]_vars
    /\ [](\A l \in Languages : IsPrefix(Rows(ledger0[l]), Rows(ledger[l])))

\* C18 witness: a ledger that did not exist when the run began was created
\* by one marking and extended by another.
C18_Witness ==
    \E l \in Languages :
        /\ ~ledger0[l].exists
        /\ run = 1
        /\ Len(Rows(ledger[l])) = 2
        /\ ledger[l].rows[1] # ledger[l].rows[2]

\* C19: a step changes the record store or the ledger of a facet only while
\* a unit of that facet is being processed; the stores and ledgers of all
\* other facets are the same after the step as before it.
C19_PerFacetOwnership ==
    [][\A l \in Languages :
          (db'[l] # db[l] \/ ledger'[l] # ledger[l]) =>
              /\ InUnit
              /\ l = language
              /\ \A other \in Languages \ {l} :
                    db'[other] = db[other] /\ ledger'[other] = ledger[other]
      ]_vars

\* C19 witness: a unit of one facet is being processed after records were
\* stored and a code was marked for another facet, whose store differs.
C19_Witness ==
    /\ InUnit
    /\ \E l \in Languages \ {language} :
          /\ db[l] # <<>>
          /\ ledger[l].exists
          /\ db[l] # db[language]

\* C20: when the universe has no repeated code, no facet's ledger holds a
\* code twice, in any state of any run, terminated and aborted ones included.
C20_NoCodeMarkedTwice ==
    NoRepeat(Rows(universeFile[path])) =>
        \A l \in Languages : NoRepeat(Rows(ledger[l]))

\* C20 witness: a campaign over a universe of two codes was ended after its
\* first unit was marked, and the next run finished with the facet's ledger
\* holding each of the two codes once.
C20_Witness ==
    /\ run > 1
    /\ pc = "finished"
    /\ Len(Rows(universeFile[path])) = 2
    /\ NoRepeat(Rows(universeFile[path]))
    /\ \E l \in Languages :
          /\ Len(Rows(ledger0[l])) = 1
          /\ Rows(ledger[l]) = Rows(universeFile[path])

====
